---- MODULE Spec2Model ----
(***************************************************************************)
(* Model of the read-only API of the drf_course project: the Product,      *)
(* Order and OrderItem tables, the five GET endpoints of api/urls.py, the  *)
(* serializers of api/serializers.py and the out-of-band writes (admin     *)
(* site) that may interleave with the queries of one request.              *)
(*                                                                         *)
(* Prices are Decimal(max_digits=10, decimal_places=2) values; they are    *)
(* kept as integers counting hundredths.  One request is handled at a      *)
(* time; a request that runs several SQL queries is one action per query,  *)
(* because the database may change between two queries.                    *)
(*                                                                         *)
(* A table is the sequence of its live rows in primary-key order; seq      *)
(* holds the next primary key of each table, so a key is never reused      *)
(* after a delete.  Of a User row the model keeps id and is_active, of a   *)
(* Product row id and price, of an Order row order_id and user, of an      *)
(* OrderItem row id, order, product and quantity; the other columns (name, *)
(* description, stock, status, created_at) are rendered as stored and are  *)
(* left out.                                                               *)
(***************************************************************************)
EXTENDS Integers, Sequences, FiniteSets, TLC

VARIABLES users, products, orders, items, seq, pc, ep, arg, cred, user,
          cOrders, cItems, cProducts, nq, resp, seen, races

vars == <<users, products, orders, items, seq, pc, ep, arg, cred, user,
          cOrders, cItems, cProducts, nq, resp, seen, races>>

db == <<users, products, orders, items>>

(* ------------------------------ bounds --------------------------------- *)
\* admin writes that commit while one request is in flight
MaxRaces == 1

(* ------------------------------ inputs --------------------------------- *)
\* The keys the User table hands out, in order
UserKeys == <<"u1", "u2">>
Users == {UserKeys[k] : k \in DOMAIN UserKeys}
ProductIds == {1, 2}
OrderIds == {1, 2}
ItemIds == {1, 2}
LookupIds == {0, 1, 2, 3}
Prices == {500, 1000}
Quantities == {1, 2}
PriceInputs == {-500, 0, 1, 500}
Creds == Users \cup {"none", "invalid"}
Anonymous == "AnonymousUser"

None == <<>>
Some(v) == <<v>>

NoSeen == [q1 |-> <<>>, q2 |-> <<>>, q3 |-> <<>>]

(* ---------------------------- pure helpers ----------------------------- *)
RECURSIVE SumSeq(_)
SumSeq(s) == IF s = <<>> THEN 0 ELSE Head(s) + SumSeq(Tail(s))

RECURSIVE MapPrice(_)
MapPrice(s) == IF s = <<>> THEN <<>> ELSE <<Head(s).price>> \o MapPrice(Tail(s))

SeqMax(s) == CHOOSE m \in {s[i] : i \in 1..Len(s)} :
                 \A j \in 1..Len(s) : s[j] <= m

Range(s) == {s[i] : i \in 1..Len(s)}

\* DecimalField(decimal_places=2).to_representation: the value quantized to
\* two places and rendered as the string "<units>.<hundredths>".
DecimalStr(c) == <<c \div 100, c % 100>>

\* Decimal(str): the value a rendered "<units>.<hundredths>" string stands for
ParseDecimalStr(s) == s[1] * 100 + s[2]

\* FloatField.to_representation: float(value); a float is named by the
\* hundredths it stands for (exact for every two-place decimal in range).
FloatRepr(c) == [float_hundredths |-> c]

\* The row of table t whose primary key is id (the table holds one)
RowById(t, id) == CHOOSE r \in Range(t) : r.id = id

(* ------------------------------ queries -------------------------------- *)
\* Product.objects.all()
AllProducts == products

\* Order.objects.prefetch_related("items__product") -- the orders query
AllOrders == orders

\* UserOrderListAPIView.get_queryset: qs.filter(user=self.request.user)
get_queryset_unfiltered(qs, u) == qs
get_queryset(qs, u) == SelectSeq(qs, LAMBDA o : o.user = u)

\* prefetch of "items": OrderItem rows whose order is one of the fetched ones
PrefetchItems(os) ==
    SelectSeq(items, LAMBDA i : i.order \in {o.order_id : o \in Range(os)})

\* prefetch of "items__product": Product rows referenced by the fetched items
PrefetchProducts(its) ==
    SelectSeq(products, LAMBDA p : p.id \in {i.product : i \in Range(its)})

\* products.aggregate(max_price=Max("price"))["max_price"]
AggregateMaxZero(ps) == IF ps = <<>> THEN Some(0) ELSE Some(SeqMax(MapPrice(ps)))
AggregateMax(ps) == IF ps = <<>> THEN None ELSE Some(SeqMax(MapPrice(ps)))

(* ---------------------------- serializers ------------------------------ *)
\* ProductSerializer.validate_price
validate_price_strict(value) ==
    IF value < 0
    THEN [ok |-> FALSE, field |-> "price",
          error |-> "Price must be greater than zero.", value |-> None]
    ELSE [ok |-> TRUE, field |-> "price", error |-> "", value |-> Some(value)]
validate_price(value) ==
    IF value <= 0
    THEN [ok |-> FALSE, field |-> "price",
          error |-> "Price must be greater than zero.", value |-> None]
    ELSE [ok |-> TRUE, field |-> "price", error |-> "", value |-> Some(value)]

\* ProductSerializer.to_representation
ProductRepr(p) == [id |-> p.id, price |-> DecimalStr(p.price)]

RECURSIVE ProductListRepr(_)
ProductListRepr(ps) ==
    IF ps = <<>> THEN <<>>
    ELSE <<ProductRepr(Head(ps))>> \o ProductListRepr(Tail(ps))

\* item.product, served from the prefetch cache; the cache holds no row for
\* a product deleted before the products query, and reading item.product
\* then raises RelatedObjectDoesNotExist
HasProduct(item, cps) == \E p \in Range(cps) : p.id = item.product
ProductOf(item, cps) == RowById(cps, item.product)

\* OrderItem.item_subtotal
item_subtotal(item, cps) == ProductOf(item, cps).price * item.quantity

\* obj.items.all(), served from the prefetch cache
ItemsOf(obj, cis) == SelectSeq(cis, LAMBDA i : i.order = obj.order_id)

RECURSIVE Subtotals(_, _)
Subtotals(its, cps) ==
    IF its = <<>> THEN <<>>
    ELSE <<item_subtotal(Head(its), cps)>> \o Subtotals(Tail(its), cps)

\* OrderSerializer.get_total_price
get_total_price_all(obj, cis, cps) == SumSeq(Subtotals(cis, cps))
get_total_price(obj, cis, cps) == SumSeq(Subtotals(ItemsOf(obj, cis), cps))

\* OrderItemSerializer.to_representation
ItemRepr(item, cps) ==
    [product_price |-> DecimalStr(ProductOf(item, cps).price),
     quantity |-> item.quantity,
     item_subtotal |-> item_subtotal(item, cps)]

RECURSIVE ItemListRepr(_, _)
ItemListRepr(its, cps) ==
    IF its = <<>> THEN <<>>
    ELSE <<ItemRepr(Head(its), cps)>> \o ItemListRepr(Tail(its), cps)

\* OrderSerializer.to_representation
OrderRepr(obj, cis, cps) ==
    [order_id |-> obj.order_id,
     user |-> obj.user,
     items |-> ItemListRepr(ItemsOf(obj, cis), cps),
     total_price |-> get_total_price(obj, cis, cps)]

RECURSIVE OrderListRepr(_, _, _)
OrderListRepr(os, cis, cps) ==
    IF os = <<>> THEN <<>>
    ELSE <<OrderRepr(Head(os), cis, cps)>> \o OrderListRepr(Tail(os), cis, cps)

(* --------------------------- authentication ---------------------------- *)
\* authenticate(token) -> Identity | failure: no token leaves the caller
\* anonymous; a token is accepted when it is well formed and names a user
\* that exists and is active
Authenticate(c) ==
    IF c = "none" THEN [ok |-> TRUE, user |-> Anonymous]
    ELSE IF \E r \in Range(users) : r.id = c /\ r.is_active
    THEN [ok |-> TRUE, user |-> c]
    ELSE [ok |-> FALSE, user |-> Anonymous]

\* UserOrderListAPIView declares no permission_classes
HasPermission(u) == TRUE

(* -------------------------------- Init --------------------------------- *)
Init ==
    /\ users = <<>>
    /\ products = <<>>
    /\ orders = <<>>
    /\ items = <<>>
    /\ seq = [u |-> 1, p |-> 1, o |-> 1, i |-> 1]
    /\ pc = "idle"
    /\ ep = "none"
    /\ arg = 0
    /\ cred = "none"
    /\ user = Anonymous
    /\ cOrders = <<>>
    /\ cItems = <<>>
    /\ cProducts = <<>>
    /\ nq = 0
    /\ resp = [status |-> 0, body |-> <<>>]
    /\ seen = NoSeen
    /\ races = 0

ReqUnchanged ==
    UNCHANGED <<pc, ep, arg, cred, user, cOrders, cItems, cProducts, nq, resp, seen>>
DbUnchanged == UNCHANGED <<users, products, orders, items, seq, races>>

(* ----------------- out-of-band writes (admin site) --------------------- *)
\* An admin write commits between two requests or between two queries of the
\* request in flight, never after its response is built
Writable ==
    /\ pc # "done"
    /\ pc # "idle" => races < MaxRaces
    /\ races' = IF pc = "idle" THEN races ELSE races + 1

\* User admin: add view
AddUser ==
    /\ Writable
    /\ seq.u \in DOMAIN UserKeys
    /\ users' = Append(users, [id |-> UserKeys[seq.u], is_active |-> TRUE])
    /\ seq' = [seq EXCEPT !.u = @ + 1]
    /\ UNCHANGED <<products, orders, items>>
    /\ ReqUnchanged

\* User admin: change view, field is_active
SetUserActive ==
    /\ Writable
    /\ \E i \in 1..Len(users) :
          users' = [users EXCEPT ![i].is_active = ~@]
    /\ UNCHANGED <<products, orders, items, seq>>
    /\ ReqUnchanged

\* ProductAdmin: add view
AddProduct ==
    /\ Writable
    /\ seq.p \in ProductIds
    /\ \E p \in Prices :
          products' = Append(products, [id |-> seq.p, price |-> p])
    /\ seq' = [seq EXCEPT !.p = @ + 1]
    /\ UNCHANGED <<users, orders, items>>
    /\ ReqUnchanged

\* ProductAdmin: change view
SetPrice ==
    /\ Writable
    /\ \E i \in 1..Len(products), p \in Prices :
          /\ products[i].price # p
          /\ products' = [products EXCEPT ![i].price = p]
    /\ UNCHANGED <<users, orders, items, seq>>
    /\ ReqUnchanged

\* ProductAdmin: delete view; the items that reference the product go with it
DeleteProduct ==
    /\ Writable
    /\ \E i \in 1..Len(products) :
          LET pid == products[i].id
          IN /\ products' = SelectSeq(products, LAMBDA r : ~(r.id = pid))
             /\ items' = SelectSeq(items, LAMBDA r : ~(r.product = pid))
    /\ UNCHANGED <<users, orders, seq>>
    /\ ReqUnchanged

\* OrderAdmin: add view
AddOrder ==
    /\ Writable
    /\ seq.o \in OrderIds
    /\ \E u \in {r.id : r \in Range(users)} :
          orders' = Append(orders, [order_id |-> seq.o, user |-> u])
    /\ seq' = [seq EXCEPT !.o = @ + 1]
    /\ UNCHANGED <<users, products, items>>
    /\ ReqUnchanged

\* OrderAdmin: change view, field user
SetOrderUser ==
    /\ Writable
    /\ \E i \in 1..Len(orders), u \in {r.id : r \in Range(users)} :
          /\ orders[i].user # u
          /\ orders' = [orders EXCEPT ![i].user = u]
    /\ UNCHANGED <<users, products, items, seq>>
    /\ ReqUnchanged

\* OrderAdmin: delete view; the order's items go with it
DeleteOrder ==
    /\ Writable
    /\ \E i \in 1..Len(orders) :
          LET oid == orders[i].order_id
          IN /\ orders' = SelectSeq(orders, LAMBDA r : ~(r.order_id = oid))
             /\ items' = SelectSeq(items, LAMBDA r : ~(r.order = oid))
    /\ UNCHANGED <<users, products, seq>>
    /\ ReqUnchanged

\* OrderItemInline: a new row saved with the order's change view
AddItem ==
    /\ Writable
    /\ seq.i \in ItemIds
    /\ \E o \in 1..Len(orders), p \in 1..Len(products), q \in Quantities :
          items' = Append(items, [id |-> seq.i, order |-> orders[o].order_id,
                                  product |-> products[p].id, quantity |-> q])
    /\ seq' = [seq EXCEPT !.i = @ + 1]
    /\ UNCHANGED <<users, products, orders>>
    /\ ReqUnchanged

\* OrderItemInline: quantity of an existing row
SetQuantity ==
    /\ Writable
    /\ \E i \in 1..Len(items), q \in Quantities :
          /\ items[i].quantity # q
          /\ items' = [items EXCEPT ![i].quantity = q]
    /\ UNCHANGED <<users, products, orders, seq>>
    /\ ReqUnchanged

\* OrderItemInline: product of an existing row
SetItemProduct ==
    /\ Writable
    /\ \E i \in 1..Len(items), p \in 1..Len(products) :
          /\ items[i].product # products[p].id
          /\ items' = [items EXCEPT ![i].product = products[p].id]
    /\ UNCHANGED <<users, products, orders, seq>>
    /\ ReqUnchanged

\* OrderItemInline: DELETE ticked on an existing row
DeleteItem ==
    /\ Writable
    /\ \E i \in 1..Len(items) :
          items' = SelectSeq(items, LAMBDA r : ~(r.id = items[i].id))
    /\ UNCHANGED <<users, products, orders, seq>>
    /\ ReqUnchanged

\* User admin: delete view; the user's orders and their items go with it
DeleteUser ==
    /\ Writable
    /\ \E u \in {r.id : r \in Range(users)} :
          LET gone == {o.order_id : o \in {x \in Range(orders) : x.user = u}}
          IN /\ users' = SelectSeq(users, LAMBDA r : ~(r.id = u))
             /\ orders' = SelectSeq(orders, LAMBDA r : ~(r.user = u))
             /\ items' = SelectSeq(items, LAMBDA r : ~(r.order \in gone))
    /\ UNCHANGED <<products, seq>>
    /\ ReqUnchanged

(* ----------------------------- endpoints ------------------------------- *)
Respond(e, a, c, n, r, s) ==
    /\ pc' = "done"
    /\ ep' = e
    /\ arg' = a
    /\ cred' = c
    /\ user' = Anonymous
    /\ nq' = n
    /\ resp' = r
    /\ seen' = s

\* GET /products/
ProductListAPIView ==
    /\ pc = "idle"
    /\ Respond("products", 0, "none", 1,
               [status |-> 200, body |-> ProductListRepr(AllProducts)],
               [NoSeen EXCEPT !.q1 = products])
    /\ UNCHANGED <<cOrders, cItems, cProducts>>
    /\ DbUnchanged

\* GET /products/<int:product_id>
get_object_first(pid) ==
    LET found == SelectSeq(AllProducts, LAMBDA p : p.id = pid)
    IN IF found = <<>> THEN [status |-> 200, body |-> <<>>]
       ELSE [status |-> 200, body |-> <<ProductRepr(found[1])>>]
get_object(pid) ==
    LET found == SelectSeq(AllProducts, LAMBDA p : p.id = pid)
    IN IF found = <<>> THEN [status |-> 404, body |-> <<>>]
       ELSE [status |-> 200, body |-> <<ProductRepr(found[1])>>]

ProductDetailGetOrCreate ==
    /\ pc = "idle"
    /\ \E pid \in LookupIds :
          /\ Respond("product", pid, "none", 1, get_object(pid),
                     [NoSeen EXCEPT !.q1 = products])
          /\ products' = IF \E p \in Range(products) : p.id = pid
                         THEN products
                         ELSE Append(products, [id |-> pid, price |-> 500])
    /\ UNCHANGED <<cOrders, cItems, cProducts, users, orders, items, seq, races>>
ProductDetailAPIView ==
    /\ pc = "idle"
    /\ \E pid \in LookupIds :
          Respond("product", pid, "none", 1, get_object(pid),
                  [NoSeen EXCEPT !.q1 = products])
    /\ UNCHANGED <<cOrders, cItems, cProducts>>
    /\ DbUnchanged

\* GET /products/info -- len(products) runs the list query and caches its rows
product_info_list ==
    /\ pc = "idle"
    /\ pc' = "info_listed"
    /\ ep' = "info"
    /\ arg' = 0
    /\ cred' = "none"
    /\ cProducts' = AllProducts
    /\ nq' = 1
    /\ seen' = [NoSeen EXCEPT !.q1 = products]
    /\ UNCHANGED <<user, cOrders, cItems, resp>>
    /\ DbUnchanged

\* GET /products/info -- products.aggregate(...) runs a second query, then
\* ProductInfoSerializer renders the cached rows, their count and the maximum
ProductInfoRepr(ps, count, max_price) ==
    [products |-> ProductListRepr(ps),
     count |-> count,
     max_price |-> IF max_price = None THEN None
                   ELSE Some(FloatRepr(max_price[1]))]

product_info_aggregate ==
    /\ pc = "info_listed"
    /\ pc' = "done"
    /\ nq' = nq + 1
    /\ resp' = [status |-> 200,
                body |-> ProductInfoRepr(cProducts, Len(cProducts),
                                         AggregateMax(AllProducts))]
    /\ seen' = [seen EXCEPT !.q2 = products]
    /\ UNCHANGED <<ep, arg, cred, user, cOrders, cItems, cProducts>>
    /\ DbUnchanged

\* GET /orders/ and GET /user-orders/ -- authentication and permissions.
\* A rejected token is answered 401.  On /user-orders/ an anonymous caller
\* reaches get_queryset, where filter(user=AnonymousUser) raises TypeError
\* before any query runs: an unhandled 500.
OrderListBegin ==
    /\ pc = "idle"
    /\ \E e \in {"orders", "user-orders"}, c \in Creds :
          /\ e = "orders" => c = "none"
          /\ ep' = e
          /\ arg' = 0
          /\ cred' = c
          /\ LET auth == Authenticate(c)
             IN /\ user' = auth.user
                /\ IF ~auth.ok
                   THEN /\ pc' = "done"
                        /\ resp' = [status |-> 401, body |-> <<>>]
                   ELSE IF ~HasPermission(auth.user)
                   THEN /\ pc' = "done"
                        /\ resp' = [status |-> 403, body |-> <<>>]
                   ELSE IF e = "user-orders" /\ auth.user = Anonymous
                   THEN /\ pc' = "done"
                        /\ resp' = [status |-> 500, body |-> <<>>]
                   ELSE /\ pc' = "authenticated"
                        /\ UNCHANGED resp
    /\ nq' = 0
    /\ seen' = NoSeen
    /\ UNCHANGED <<cOrders, cItems, cProducts>>
    /\ DbUnchanged

\* The queryset of an order endpoint
OrderQueryset(e, u) ==
    IF e = "user-orders" THEN get_queryset(AllOrders, u) ELSE AllOrders

\* The orders query; prefetch_related_objects returns at once when no order
\* matched
OrderListOrders ==
    /\ pc = "authenticated"
    /\ LET os == OrderQueryset(ep, user)
       IN /\ cOrders' = os
          /\ nq' = nq + 1
          /\ seen' = [seen EXCEPT !.q1 = orders]
          /\ IF os = <<>>
             THEN /\ pc' = "done"
                  /\ resp' = [status |-> 200, body |-> <<>>]
             ELSE /\ pc' = "orders_fetched"
                  /\ UNCHANGED resp
    /\ UNCHANGED <<ep, arg, cred, user, cItems, cProducts>>
    /\ DbUnchanged

\* prefetch level "items": one query; with no item the product level is skipped
OrderListItems ==
    /\ pc = "orders_fetched"
    /\ LET its == PrefetchItems(cOrders)
       IN /\ cItems' = its
          /\ nq' = nq + 1
          /\ seen' = [seen EXCEPT !.q2 = items]
          /\ IF its = <<>>
             THEN /\ pc' = "done"
                  /\ resp' = [status |-> 200,
                              body |-> OrderListRepr(cOrders, <<>>, <<>>)]
             ELSE /\ pc' = "items_fetched"
                  /\ UNCHANGED resp
    /\ UNCHANGED <<ep, arg, cred, user, cOrders, cProducts>>
    /\ DbUnchanged

\* OrderSerializer(many=True) over the prefetch caches, without further
\* queries; get_total_price raises when an item's product is not in the cache
OrderListResponse(os, cis, cps) ==
    IF \A i \in Range(cis) : HasProduct(i, cps)
    THEN [status |-> 200, body |-> OrderListRepr(os, cis, cps)]
    ELSE [status |-> 500, body |-> <<>>]

\* prefetch level "items__product": one query, then the response is rendered
OrderListProductsPerItem ==
    /\ pc = "items_fetched"
    /\ LET ps == PrefetchProducts(cItems)
       IN /\ cProducts' = ps
          /\ nq' = nq + Len(cItems)
          /\ seen' = [seen EXCEPT !.q3 = products]
          /\ pc' = "done"
          /\ resp' = OrderListResponse(cOrders, cItems, ps)
    /\ UNCHANGED <<ep, arg, cred, user, cOrders, cItems>>
    /\ DbUnchanged
OrderListProducts ==
    /\ pc = "items_fetched"
    /\ LET ps == PrefetchProducts(cItems)
       IN /\ cProducts' = ps
          /\ nq' = nq + 1
          /\ seen' = [seen EXCEPT !.q3 = products]
          /\ pc' = "done"
          /\ resp' = OrderListResponse(cOrders, cItems, ps)
    /\ UNCHANGED <<ep, arg, cred, user, cOrders, cItems>>
    /\ DbUnchanged

\* ProductSerializer(data={"price": v}).is_valid() -- the price field's hook
ValidatePrice ==
    /\ pc = "idle"
    /\ \E v \in PriceInputs :
          Respond("validate", v, "none", 0,
                  [status |-> 0, body |-> validate_price(v)], NoSeen)
    /\ UNCHANGED <<cOrders, cItems, cProducts>>
    /\ DbUnchanged

\* The response is returned; the request's objects are dropped
Finish ==
    /\ pc = "done"
    /\ pc' = "idle"
    /\ ep' = "none"
    /\ arg' = 0
    /\ cred' = "none"
    /\ user' = Anonymous
    /\ cOrders' = <<>>
    /\ cItems' = <<>>
    /\ cProducts' = <<>>
    /\ nq' = 0
    /\ resp' = [status |-> 0, body |-> <<>>]
    /\ seen' = NoSeen
    /\ races' = 0
    /\ UNCHANGED <<users, products, orders, items, seq>>

Next ==
    \/ AddUser
    \/ SetUserActive
    \/ AddProduct
    \/ SetPrice
    \/ DeleteProduct
    \/ AddOrder
    \/ SetOrderUser
    \/ DeleteOrder
    \/ AddItem
    \/ SetQuantity
    \/ SetItemProduct
    \/ DeleteItem
    \/ DeleteUser
    \/ ProductListAPIView
    \/ ProductDetailAPIView
    \/ product_info_list
    \/ product_info_aggregate
    \/ OrderListBegin
    \/ OrderListOrders
    \/ OrderListItems
    \/ OrderListProducts
    \/ ValidatePrice
    \/ Finish

Spec == Init /\ [][Next]_vars

(* ------------------------------ properties ----------------------------- *)
OrderEndpoints == {"orders", "user-orders"}
OrdersDone == pc = "done" /\ ep \in OrderEndpoints /\ resp.status = 200

\* The total of order oid over the OrderItem table as the items query read it
\* (seen.q2), priced from the Product table as the products query read it
\* (seen.q3).
ExpectedTotal(oid) ==
    SumSeq([i \in 1..Len(seen.q2) |->
              IF seen.q2[i].order = oid
              THEN seen.q2[i].quantity * RowById(seen.q3, seen.q2[i].product).price
              ELSE 0])

\* C1: every order of a list-orders or list-my-orders response carries a
\* total_price equal to the sum, over the items that belong to that order when
\* the request reads them, of quantity times the product's price when the
\* request reads it; every item counts once and nothing stored is returned.
C1_TotalPriceAtRead ==
    OrdersDone =>
        \A k \in 1..Len(resp.body) :
            resp.body[k].total_price = ExpectedTotal(resp.body[k].order_id)

C1_Witness ==
    /\ OrdersDone
    /\ Len(resp.body) = 2
    /\ \E k \in 1..2 : /\ Len(resp.body[k].items) = 1
                       /\ resp.body[k].total_price = 2000
    /\ \E k \in 1..2 : /\ Len(resp.body[k].items) = 1
                       /\ resp.body[k].total_price = 500

\* No write landed between the queries of the finished request.
QuietRequest ==
    /\ seen.q1 = orders
    /\ nq >= 2 => seen.q2 = items
    /\ nq >= 3 => seen.q3 = products

\* What GET /orders/ answers when all its queries read tables P, O, I.
ListOrdersIn(P, O, I) ==
    LET its == SelectSeq(I, LAMBDA i : i.order \in {o.order_id : o \in Range(O)})
        ps == SelectSeq(P, LAMBDA p : p.id \in {i.product : i \in Range(its)})
    IN OrderListRepr(O, its, ps)

\* C2: for an authenticated caller u, GET /user-orders/ answers 200 with
\* exactly the orders whose user is u (each returned order is u's, each order
\* of u is returned), and the answer is the sub-list of what GET /orders/
\* answers in the same state, with the same nested items for each order.
C2_UserOrdersExact ==
    (pc = "done" /\ ep = "user-orders" /\ user \in Users) =>
        /\ resp.status = 200 =>
              /\ \A k \in 1..Len(resp.body) : resp.body[k].user = user
              /\ {resp.body[k].order_id : k \in 1..Len(resp.body)}
                    = {o.order_id : o \in {x \in Range(seen.q1) : x.user = user}}
        /\ QuietRequest =>
              /\ resp.status = 200
              /\ resp.body = SelectSeq(ListOrdersIn(products, orders, items),
                                       LAMBDA r : r.user = user)

C2_Witness ==
    /\ pc = "done" /\ ep = "user-orders" /\ cred = "u1"
    /\ resp.status = 200
    /\ Len(resp.body) = 1
    /\ Len(resp.body[1].items) = 1
    /\ Len(orders) = 2
    /\ Len(items) = 2
    /\ \E i \in 1..2, o \in 1..2 :
          orders[o].order_id = items[i].order /\ orders[o].user = "u2"
    /\ QuietRequest

\* C3: GET /user-orders/ without an authenticated identity (no token or an
\* invalid token) is answered 401 or 403, and only an authenticated request
\* is answered 200.
C3_UnauthenticatedRejected ==
    (pc = "done" /\ ep = "user-orders") =>
        IF user \in Users THEN resp.status = 200
        ELSE resp.status \in {401, 403}

\* C4: GET /products/{product_id} answers 200 with the product whose id is
\* product_id when the table holds it, and 404 with no product otherwise.
C4_RetrieveOrNotFound ==
    (pc = "done" /\ ep = "product") =>
        IF \E p \in Range(products) : p.id = arg
        THEN /\ resp.status = 200
             /\ Len(resp.body) = 1
             /\ resp.body[1].id = arg
             /\ ParseDecimalStr(resp.body[1].price) = RowById(products, arg).price
        ELSE /\ resp.status = 404
             /\ resp.body = <<>>

C4_Witness ==
    /\ pc = "done" /\ ep = "product"
    /\ arg = 1
    /\ Len(products) = 1
    /\ resp.status = 404

RECURSIVE ReprPrices(_)
ReprPrices(rs) ==
    IF rs = <<>> THEN <<>>
    ELSE <<ParseDecimalStr(Head(rs).price)>> \o ReprPrices(Tail(rs))

\* C5: every product-info response is consistent with one snapshot: count is
\* the length of its products list and max_price is the maximum price among
\* exactly those products, whatever is written between the two queries.
C5_InfoOneSnapshot ==
    (pc = "done" /\ ep = "info") =>
        /\ resp.body.count = Len(resp.body.products)
        /\ resp.body.max_price =
              IF resp.body.products = <<>> THEN None
              ELSE Some(FloatRepr(SeqMax(ReprPrices(resp.body.products))))

\* C6: with an empty Product table the product-info endpoint answers 200 with
\* an empty products list, count 0 and a null max_price.
C6_InfoEmptyTable ==
    (pc = "done" /\ ep = "info" /\ seen.q1 = <<>> /\ seen.q2 = <<>>) =>
        resp = [status |-> 200,
                body |-> [products |-> <<>>, count |-> 0, max_price |-> None]]

C6_Witness ==
    /\ pc = "done" /\ ep = "info"
    /\ seen.q1 = <<>> /\ seen.q2 = <<>>
    /\ products = <<>>
    /\ nq = 2

\* C7 as stated: every list-orders or list-my-orders request runs exactly 3
\* fetches.
C7_ExactlyThreeFetches == OrdersDone => nq = 3

\* C7 amended: such a request runs 1 fetch when no order matched, 2 when the
\* matched orders have no item, and 3 otherwise; never more than 3, whatever
\* the number of orders and items.
C7_FetchesBounded ==
    /\ ep \in OrderEndpoints => nq <= 3
    /\ OrdersDone =>
          nq = IF cOrders = <<>> THEN 1 ELSE IF cItems = <<>> THEN 2 ELSE 3

C7_Witness ==
    /\ OrdersDone
    /\ nq = 3
    /\ Len(cOrders) = 2
    /\ Len(cItems) = 2
    /\ Len(cProducts) = 2

\* C8: a step of any endpoint (every step that moves the request, whatever
\* its outcome) leaves the Product, Order and OrderItem rows as they were.
C8_ReadOnly == [][pc' # pc => db' = db]_vars

C8_Witness ==
    /\ pc = "done" /\ ep = "product"
    /\ resp.status = 404
    /\ arg = seq.p
    /\ items # <<>>

\* C10: price validation rejects every value <= 0, zero included, with an
\* error on the price field and no validated value, and accepts every value
\* > 0 unchanged.
C10_PricePositive ==
    (pc = "done" /\ ep = "validate") =>
        IF arg <= 0
        THEN /\ ~resp.body.ok
             /\ resp.body.field = "price"
             /\ resp.body.value = None
        ELSE /\ resp.body.ok
             /\ resp.body.value = Some(arg)

C10_Witness ==
    /\ pc = "done" /\ ep = "validate"
    /\ arg = 0
    /\ ~resp.body.ok

====
